---------------------------- MODULE Spec2Model ----------------------------
(***************************************************************************)
(* A model of jpjacobpadilla/web-archiver.                                 *)
(*                                                                         *)
(*   Spec / FairSpec : one crawl session of BasicArchiver                  *)
(*                     (backend/archiver/basic_archiver.py) running on the *)
(*                     asyncio event loop, together with the POST /archive *)
(*                     handler of backend/app/main.py that shares the      *)
(*                     archive_jobs table with it.                         *)
(*                                                                         *)
(* asyncio is cooperative: a coroutine runs without interruption from one  *)
(* suspension to the next.  The suspensions of a worker are the blocking   *)
(* url_queue.get(), asyncio.sleep / session.get in crawl, and the database *)
(* round trip of archive_content.  `async with self._seen_lock` never      *)
(* suspends (no holder ever awaits inside the section) and neither does    *)
(* `await self.url_queue.put(url)` on the unbounded queue, so parse_links, *)
(* on_found_links and every put_todo of a batch run in the same atomic     *)
(* step as the arrival of the response.                                    *)
(***************************************************************************)
EXTENDS Integers, Sequences, FiniteSets, TLC

---------------------------------------------------------------------------
(* Bounds of the model. *)

\* max_pages is drawn from 0..MaxPagesBound
MaxPagesBound == 2
\* num_workers is drawn from 1..MaxWorkers
MaxWorkers == 2
\* number of POST /archive requests handled while the session runs
MaxRequests == 1

---------------------------------------------------------------------------
(* URLs of the crawl, as urllib.parse.urlparse sees them. *)

Url(s, n, p) == [scheme |-> s, netloc |-> n, path |-> p]

NoUrl == Url("", "", "")

\* the seed a session is constructed with: one the frontier admits, one it
\* does not (scheme ftp)
SeedUrls == {Url("https", "a.com", "/"), Url("ftp", "a.com", "/")}

\* absolute, fragment-free URLs that abs_url can produce from the
\* references of a fetched page, before the same_domain filter
LinkUniverse ==
    { Url("https", "a.com", "/"),
      Url("https", "a.com", "/p"),
      Url("http", "A.com", "/q.html"),
      Url("https", "a.com:443", "/"),
      Url("https", "b.com", "/") }

\* the site of the session that is followed from the middle of its crawl:
\* four URLs of the seed's host and a foreign one
RaceSite ==
    { Url("https", "a.com", "/"),
      Url("https", "a.com", "/p"),
      Url("https", "a.com", "/r"),
      Url("https", "a.com", "/s"),
      Url("https", "b.com", "/") }

AllUrls == SeedUrls \cup LinkUniverse \cup RaceSite

\* str.lower() on the authorities that occur
Lower(n) == IF n = "A.com" THEN "a.com" ELSE n

Statuses == {200, 404}

\* resp.headers.get('content-type'): a header value, or "" for a response
\* without the header (None, which crawl turns into '' and Postgres stores
\* as NULL)
ContentTypes == {"text/html; charset=utf-8", "image/png", ""}

\* 'text/html' in ctype
HasTextHtml(ct) == ct \in {"text/html", "text/html; charset=utf-8"}

\* what lxml does with the body: builds a tree, fails in fromstring, or
\* raises later (make_links_absolute / urljoin on a malformed reference)

\* ArchiveRequest.max_pages and .num_workers when the body leaves them out
DefaultMaxPages == 25
DefaultNumWorkers == 8

\* bodies of POST /archive
ArchiveRequests ==
    [url : {Url("https", "a.com", "/")},
     max_pages : {DefaultMaxPages},
     num_workers : {1, DefaultNumWorkers}]

\* no call into backend/app/main.py yet
NoCall == [fn |-> "none"]

NoResponse ==
    [status |-> 0, job_id |-> 0, url |-> NoUrl, max_pages |-> 0, num_workers |-> 0]

Workers == 1..MaxWorkers

VARIABLES
    site,              \* the URLs the crawled site links and redirects to
    offered,           \* history: how often on_found_links passed a URL to put_todo
    skipped,           \* history: the URLs on_found_links found in seen
    url,               \* self.url
    num_workers,       \* self.num_workers
    max_pages,         \* self.max_pages
    url_queue,         \* self.url_queue, the items
    unfinished_tasks,  \* self.url_queue._unfinished_tasks
    seen,              \* self.seen
    total_links_seen,  \* self.total_links_seen
    job_id,            \* self.job_id, 0 for None
    run_pc,            \* where run() is
    wpc,               \* where each worker task is
    wurl,              \* the URL a worker holds
    wresp,             \* the response a worker holds
    wtask,             \* index in tasklog of the task a worker holds
    cancel_requested,  \* worker.cancel() was called
    jobs,              \* archive_jobs: number of rows (ids are 1..jobs)
    rows,              \* archived_resource
    accepted,          \* POST /archive answered 200
    archive_response,  \* the last answer of POST /archive
    runs_scheduled,    \* times BasicArchiver.run was invoked
    enq,               \* history: url_queue.put calls per URL
    tasklog,           \* history: one record per dequeued URL
    call,              \* the last call into backend/app/main.py
    result             \* what that call returned

crawlVars == <<site, offered, skipped, url, num_workers, max_pages, url_queue, unfinished_tasks, seen,
               total_links_seen, job_id, run_pc, wpc, wurl, wresp, wtask,
               cancel_requested, jobs, rows, accepted, archive_response,
               runs_scheduled, enq, tasklog>>

replayVars == <<call, result>>

vars == <<crawlVars, replayVars>>

---------------------------------------------------------------------------
(* BasicArchiver: the frontier. *)

\* self._allowed_netloc
allowed_netloc == Lower(url.netloc)

same_domain(u) ==
    u.scheme \in {"http", "https"} /\ Lower(u.netloc) = allowed_netloc

\* The part of the object that put_todo reads and writes.
Frontier ==
    [queue |-> url_queue, total |-> total_links_seen,
     unfinished |-> unfinished_tasks, enq |-> enq]

\* put_todo without the max_pages test
put_todo_uncapped(u, f) ==
    IF u.scheme \notin {"http", "https"} \/ ~same_domain(u)
    THEN f
    ELSE [queue |-> Append(f.queue, u),
          total |-> f.total + 1,
          unfinished |-> f.unfinished + 1,
          enq |-> [f.enq EXCEPT ![u] = @ + 1]]

\* put_todo comparing the authority without .lower()
put_todo_case_sensitive(u, f) ==
    IF f.total >= max_pages
    THEN f
    ELSE IF u.scheme \notin {"http", "https"} \/ u.netloc # url.netloc
    THEN f
    ELSE [queue |-> Append(f.queue, u),
          total |-> f.total + 1,
          unfinished |-> f.unfinished + 1,
          enq |-> [f.enq EXCEPT ![u] = @ + 1]]

put_todo(u, f) ==
    IF f.total >= max_pages
    THEN f
    ELSE IF u.scheme \notin {"http", "https"} \/ ~same_domain(u)
    THEN f
    ELSE [queue |-> Append(f.queue, u),
          total |-> f.total + 1,
          unfinished |-> f.unfinished + 1,
          enq |-> [f.enq EXCEPT ![u] = @ + 1]]

\* for u in new: await self.put_todo(u), in the order `order`
RECURSIVE PutAll(_, _)
PutAll(order, f) ==
    IF order = <<>> THEN f
    ELSE PutAll(Tail(order), put_todo(Head(order), f))

\* the orders in which a Python set may be iterated
Orders(S) ==
    {o \in [1..Cardinality(S) -> S] : \A i, j \in DOMAIN o : i # j => o[i] # o[j]}

SetFrontier(f) ==
    /\ url_queue' = f.queue
    /\ total_links_seen' = f.total
    /\ unfinished_tasks' = f.unfinished
    /\ enq' = f.enq

\* put_todo testing the cap against a counter value read earlier
put_todo_observed(u, f, observed) ==
    IF observed >= max_pages
    THEN f
    ELSE IF u.scheme \notin {"http", "https"} \/ ~same_domain(u)
    THEN f
    ELSE [queue |-> Append(f.queue, u),
          total |-> f.total + 1,
          unfinished |-> f.unfinished + 1,
          enq |-> [f.enq EXCEPT ![u] = @ + 1]]

RECURSIVE PutAllObserved(_, _, _)
PutAllObserved(order, f, observed) ==
    IF order = <<>> THEN f
    ELSE PutAllObserved(Tail(order), put_todo_observed(Head(order), f, observed),
                        observed)

\* on_found_links where every URL of the batch is tested against the
\* counter as it was when the batch started: the tests all come before
\* the increments
on_found_links_stale_total(urls, order) ==
    LET new == urls \ seen IN
    /\ order \in Orders(new)
    /\ seen' = seen \cup new
    /\ offered' = [u \in AllUrls |-> offered[u] + IF u \in new THEN 1 ELSE 0]
    /\ skipped' = skipped \cup (urls \cap seen)
    /\ SetFrontier(PutAllObserved(order, Frontier, total_links_seen))

\* on_found_links without self.seen.update(new): what a worker found new
\* stays new for the next one
on_found_links_lost_update(urls, order) ==
    LET new == urls \ seen IN
    /\ order \in Orders(new)
    /\ seen' = seen
    /\ offered' = [u \in AllUrls |-> offered[u] + IF u \in new THEN 1 ELSE 0]
    /\ skipped' = skipped \cup (urls \cap seen)
    /\ SetFrontier(PutAll(order, Frontier))

\* on_found_links(urls), iterating `new` in the order `order`
on_found_links(urls, order) ==
    LET new == urls \ seen IN
    /\ order \in Orders(new)
    /\ seen' = seen \cup new
    /\ offered' = [u \in AllUrls |-> offered[u] + IF u \in new THEN 1 ELSE 0]
    /\ skipped' = skipped \cup (urls \cap seen)
    /\ SetFrontier(PutAll(order, Frontier))

\* pages | assets of parse_links: the candidates that pass same_domain
parse_links(candidates) == {u \in candidates : same_domain(u)}

---------------------------------------------------------------------------
Init ==
    /\ site = LinkUniverse
    /\ offered = [u \in AllUrls |-> 0]
    /\ skipped = {}
    /\ url \in SeedUrls
    /\ num_workers \in 1..MaxWorkers
    /\ max_pages \in 0..MaxPagesBound
    /\ url_queue = <<>>
    /\ unfinished_tasks = 0
    /\ seen = {}
    /\ total_links_seen = 0
    /\ job_id = 0
    /\ run_pc = "new"
    /\ wpc = [w \in Workers |-> "none"]
    /\ wurl = [w \in Workers |-> NoUrl]
    /\ wresp = [w \in Workers |-> [status |-> 0, ctype |-> ""]]
    /\ wtask = [w \in Workers |-> 0]
    /\ cancel_requested = [w \in Workers |-> FALSE]
    /\ jobs = 0
    /\ rows = {}
    /\ accepted = 0
    /\ archive_response = NoResponse
    /\ runs_scheduled = 0
    /\ enq = [u \in AllUrls |-> 0]
    /\ tasklog = <<>>
    /\ call = NoCall
    /\ result = NoCall

---------------------------------------------------------------------------
(* BasicArchiver.run *)

\* a caller invokes run()
StartRun ==
    /\ run_pc = "new"
    /\ run_pc' = "job"
    /\ runs_scheduled' = runs_scheduled + 1
    /\ UNCHANGED <<call, result, site, offered, skipped, url, num_workers, max_pages, url_queue, unfinished_tasks,
                   seen, total_links_seen, job_id, wpc, wurl, wresp, wtask,
                   cancel_requested, jobs, rows, accepted, archive_response, enq, tasklog>>

\* SQL_INSERT_JOB returns the new id
RunCreateJob ==
    /\ run_pc = "job"
    /\ jobs' = jobs + 1
    /\ job_id' = jobs + 1
    /\ run_pc' = "seed"
    /\ UNCHANGED <<call, result, site, offered, skipped, url, num_workers, max_pages, url_queue, unfinished_tasks,
                   seen, total_links_seen, wpc, wurl, wresp, wtask,
                   cancel_requested, rows, accepted, archive_response, runs_scheduled, enq,
                   tasklog>>

\* the job insert raises after the seed was enqueued
RunCreateJobRaisesAfterSeed ==
    /\ run_pc = "job"
    /\ SetFrontier(put_todo(url, Frontier))
    /\ run_pc' = "failed"
    /\ UNCHANGED <<call, result, site, offered, skipped, url, num_workers, max_pages, seen, job_id, wpc, wurl,
                   wresp, wtask, cancel_requested, jobs, rows, accepted,
                   archive_response, runs_scheduled, tasklog>>

\* the connection or the INSERT raises: run() ends with the error
RunCreateJobRaises ==
    /\ run_pc = "job"
    /\ run_pc' = "failed"
    /\ UNCHANGED <<call, result, site, offered, skipped, url, num_workers, max_pages, url_queue, unfinished_tasks,
                   seen, total_links_seen, job_id, wpc, wurl, wresp, wtask,
                   cancel_requested, jobs, rows, accepted, archive_response, runs_scheduled, enq,
                   tasklog>>

\* The INSERT returned its row and self.job_id was assigned, then leaving
\* `async with self.pg_pool.connection()` raises (the commit fails): the
\* row is rolled back and run() ends with the error.
RunCommitJobRaises ==
    /\ run_pc = "job"
    /\ job_id' = jobs + 1
    /\ run_pc' = "failed_commit"
    /\ UNCHANGED <<call, result, site, offered, skipped, url, num_workers, max_pages, url_queue, unfinished_tasks,
                   seen, total_links_seen, wpc, wurl, wresp, wtask,
                   cancel_requested, jobs, rows, accepted, archive_response, runs_scheduled, enq,
                   tasklog>>

\* put_todo(self.url); create the worker tasks; await url_queue.join()
RunSeedAndSpawn ==
    /\ run_pc = "seed"
    /\ SetFrontier(put_todo(url, Frontier))
    /\ wpc' = [w \in Workers |-> IF w <= num_workers THEN "get" ELSE "none"]
    /\ run_pc' = "join"
    /\ UNCHANGED <<call, result, site, offered, skipped, url, num_workers, max_pages, seen, job_id, wurl, wresp,
                   wtask, cancel_requested, jobs, rows, accepted, archive_response,
                   runs_scheduled, tasklog>>

\* run() waiting for the queue to be empty instead of join(): a URL a
\* worker has dequeued and is still crawling no longer holds the stop back
RunCancelOnEmptyQueue ==
    /\ run_pc = "join"
    /\ url_queue = <<>>
    /\ cancel_requested' = [w \in Workers |-> w <= num_workers]
    /\ run_pc' = "gather"
    /\ UNCHANGED <<call, result, site, offered, skipped, url, num_workers, max_pages, url_queue, unfinished_tasks,
                   seen, total_links_seen, job_id, wpc, wurl, wresp, wtask,
                   jobs, rows, accepted, archive_response, runs_scheduled, enq, tasklog>>

\* join() returns once no task is unfinished; every worker is cancelled
RunCancel ==
    /\ run_pc = "join"
    /\ unfinished_tasks = 0
    /\ cancel_requested' = [w \in Workers |-> w <= num_workers]
    /\ run_pc' = "gather"
    /\ UNCHANGED <<call, result, site, offered, skipped, url, num_workers, max_pages, url_queue, unfinished_tasks,
                   seen, total_links_seen, job_id, wpc, wurl, wresp, wtask,
                   jobs, rows, accepted, archive_response, runs_scheduled, enq, tasklog>>

\* run() without the gather: it returns right after worker.cancel()
RunGatherNoWait ==
    /\ run_pc = "gather"
    /\ run_pc' = "done"
    /\ UNCHANGED <<call, result, site, offered, skipped, url, num_workers, max_pages, url_queue, unfinished_tasks,
                   seen, total_links_seen, job_id, wpc, wurl, wresp, wtask,
                   cancel_requested, jobs, rows, accepted, archive_response, runs_scheduled, enq,
                   tasklog>>

\* gather(*workers, return_exceptions=True) returns; the session closes
RunGather ==
    /\ run_pc = "gather"
    /\ \A w \in Workers : w <= num_workers => wpc[w] = "exit"
    /\ run_pc' = "done"
    /\ UNCHANGED <<call, result, site, offered, skipped, url, num_workers, max_pages, url_queue, unfinished_tasks,
                   seen, total_links_seen, job_id, wpc, wurl, wresp, wtask,
                   cancel_requested, jobs, rows, accepted, archive_response, runs_scheduled, enq,
                   tasklog>>

---------------------------------------------------------------------------
(* BasicArchiver.worker / process_one / crawl / archive_content *)

\* whether the path of u ends in one of the extensions html, htm, php,
\* asp, aspx, on the paths of AllUrls
HtmlExtension(u) == u.path \in {"/q.html"}

\* What tasklog keeps of a dequeued URL: whether process_one has finished
\* with it, whether a same-host response arrived (with its status, its
\* content type and whether its final URL has an html extension), whether
\* crawl passed its links to on_found_links, and the step of crawl that
\* raised ("" for none).
NewTask(u) ==
    [url |-> u, done |-> FALSE, same_host |-> FALSE, html_ext |-> FALSE,
     status |-> 0, ctype |-> "", fed |-> FALSE, raised |-> ""]

\* a same-host response with status st and content type ct arrived from
\* final
Responded(t, st, ct, final) ==
    [t EXCEPT !.same_host = TRUE, !.html_ext = HtmlExtension(final),
              !.status = st, !.ctype = ct]

\* finally: self.url_queue.task_done(); the worker loops to the next get().
\* t is what tasklog keeps of the task, raised the step that raised.
TaskDone(w, t, raised) ==
    /\ unfinished_tasks' = unfinished_tasks - 1
    /\ tasklog' = [tasklog EXCEPT ![wtask[w]] =
                      [t EXCEPT !.done = TRUE, !.raised = raised]]
    /\ wpc' = [wpc EXCEPT ![w] = "get"]
    /\ wurl' = [wurl EXCEPT ![w] = NoUrl]
    /\ wtask' = [wtask EXCEPT ![w] = 0]

\* url = await self.url_queue.get()
Dequeue(w) ==
    /\ wpc[w] = "get"
    /\ ~cancel_requested[w]
    /\ url_queue # <<>>
    /\ url_queue' = Tail(url_queue)
    /\ wurl' = [wurl EXCEPT ![w] = Head(url_queue)]
    /\ tasklog' = Append(tasklog, NewTask(Head(url_queue)))
    /\ wtask' = [wtask EXCEPT ![w] = Len(tasklog) + 1]
    /\ wpc' = [wpc EXCEPT ![w] = "fetch"]
    /\ UNCHANGED <<call, result, site, offered, skipped, url, num_workers, max_pages, unfinished_tasks, seen,
                   total_links_seen, job_id, run_pc, wresp, cancel_requested,
                   jobs, rows, accepted, archive_response, runs_scheduled, enq>>

\* CancelledError is thrown into the worker waiting in get(): it returns
WorkerCancelled(w) ==
    /\ wpc[w] = "get"
    /\ cancel_requested[w]
    /\ wpc' = [wpc EXCEPT ![w] = "exit"]
    /\ UNCHANGED <<call, result, site, offered, skipped, url, num_workers, max_pages, url_queue, unfinished_tasks,
                   seen, total_links_seen, job_id, run_pc, wurl, wresp, wtask,
                   cancel_requested, jobs, rows, accepted, archive_response,
                   runs_scheduled, enq, tasklog>>

\* str(resp.url) after redirects: the requested URL or another one
FinalUrls(w) == site \cup {wurl[w]}

\* process_one with task_done() after the try instead of in finally: a
\* raising fetch leaves the task unfinished
FetchRaisesSkipsTaskDone(w) ==
    /\ wpc[w] = "fetch"
    /\ tasklog' = [tasklog EXCEPT ![wtask[w]].done = TRUE,
                                  ![wtask[w]].raised = "fetch"]
    /\ wpc' = [wpc EXCEPT ![w] = "get"]
    /\ wurl' = [wurl EXCEPT ![w] = NoUrl]
    /\ wtask' = [wtask EXCEPT ![w] = 0]
    /\ UNCHANGED <<call, result, site, offered, skipped, url, num_workers, max_pages, url_queue, unfinished_tasks,
                   seen, total_links_seen, job_id, run_pc, wresp,
                   cancel_requested, jobs, rows, accepted, archive_response,
                   runs_scheduled, enq>>

\* except Exception: print(exc), for session.get(url) raising
FetchRaises(w) ==
    /\ wpc[w] = "fetch"
    /\ TaskDone(w, tasklog[wtask[w]], "fetch")
    /\ UNCHANGED <<call, result, site, offered, skipped, url, num_workers, max_pages, url_queue, seen,
                   total_links_seen, job_id, run_pc, wresp, cancel_requested,
                   jobs, rows, accepted, archive_response, runs_scheduled, enq>>

\* task_done() called at the end of crawl instead of in the finally of
\* process_one: the early return on an off-host final URL skips it
FetchOffHostSkipsTaskDone(w) ==
    /\ wpc[w] = "fetch"
    /\ \E final \in FinalUrls(w) : ~same_domain(final)
    /\ tasklog' = [tasklog EXCEPT ![wtask[w]].done = TRUE]
    /\ wpc' = [wpc EXCEPT ![w] = "get"]
    /\ wurl' = [wurl EXCEPT ![w] = NoUrl]
    /\ wtask' = [wtask EXCEPT ![w] = 0]
    /\ UNCHANGED <<call, result, site, offered, skipped, url, num_workers, max_pages,
                   url_queue, unfinished_tasks, seen, total_links_seen, job_id,
                   run_pc, wresp, cancel_requested, jobs, rows, accepted,
                   archive_response, runs_scheduled, enq>>

\* crawl without the same_domain test on the final URL: the off-host
\* response goes on to archive_content
FetchOffHostArchives(w) ==
    /\ wpc[w] = "fetch"
    /\ \E final \in FinalUrls(w), st \in Statuses, ct \in ContentTypes :
          /\ ~same_domain(final)
          /\ wresp' = [wresp EXCEPT ![w] = [status |-> st, ctype |-> ct]]
    /\ wpc' = [wpc EXCEPT ![w] = "store"]
    /\ UNCHANGED <<call, result, site, offered, skipped, url, num_workers, max_pages,
                   url_queue, unfinished_tasks, seen, total_links_seen, job_id,
                   run_pc, wurl, wtask, cancel_requested, jobs, rows, accepted,
                   archive_response, runs_scheduled, enq, tasklog>>

\* the response's final URL is off-host: crawl returns
FetchOffHost(w) ==
    /\ wpc[w] = "fetch"
    /\ \E final \in FinalUrls(w) : ~same_domain(final)
    /\ TaskDone(w, tasklog[wtask[w]], "")
    /\ UNCHANGED <<call, result, site, offered, skipped, url, num_workers, max_pages, url_queue, seen,
                   total_links_seen, job_id, run_pc, wresp, cancel_requested,
                   jobs, rows, accepted, archive_response, runs_scheduled, enq>>

\* is_html = 'text/html' in ctype and resp.status_code == 200
is_html(ct, status) == HasTextHtml(ct) /\ status = 200

\* crawl archiving only what it extracts links from: any other same-host
\* response is dropped
FetchOtherSkipsArchive(w) ==
    /\ wpc[w] = "fetch"
    /\ \E final \in FinalUrls(w), st \in Statuses, ct \in ContentTypes :
          /\ same_domain(final)
          /\ ~is_html(ct, st)
          /\ TaskDone(w, Responded(tasklog[wtask[w]], st, ct, final), "")
    /\ UNCHANGED <<call, result, site, offered, skipped, url, num_workers, max_pages, url_queue, seen,
                   total_links_seen, job_id, run_pc, wresp, cancel_requested,
                   jobs, rows, accepted, archive_response, runs_scheduled, enq>>

\* a same-host response that is not a 200 text/html: no link is extracted,
\* crawl goes on to archive_content
FetchOther(w) ==
    /\ wpc[w] = "fetch"
    /\ \E final \in FinalUrls(w), st \in Statuses, ct \in ContentTypes :
          /\ same_domain(final)
          /\ ~is_html(ct, st)
          /\ wresp' = [wresp EXCEPT ![w] = [status |-> st, ctype |-> ct]]
          /\ tasklog' = [tasklog EXCEPT ![wtask[w]] = Responded(@, st, ct, final)]
    /\ wpc' = [wpc EXCEPT ![w] = "store"]
    /\ UNCHANGED <<call, result, site, offered, skipped, url, num_workers, max_pages, url_queue, unfinished_tasks,
                   seen, total_links_seen, job_id, run_pc, wurl, wtask,
                   cancel_requested, jobs, rows, accepted, archive_response,
                   runs_scheduled, enq>>

\* a same-host 200 text/html response: parse_links (an unparsable body gives
\* two empty sets), on_found_links, then archive_content
FetchHtml(w) ==
    /\ wpc[w] = "fetch"
    /\ \E final \in FinalUrls(w), ct \in ContentTypes,
          parse \in {"ok", "unparsable"}, candidates \in SUBSET site :
          /\ same_domain(final)
          /\ is_html(ct, 200)
          /\ LET found == IF parse = "ok" THEN parse_links(candidates) ELSE {} IN
             \E order \in Orders(found \ seen) : on_found_links(found, order)
          /\ wresp' = [wresp EXCEPT ![w] = [status |-> 200, ctype |-> ct]]
          /\ tasklog' = [tasklog EXCEPT ![wtask[w]] =
                            [Responded(@, 200, ct, final) EXCEPT !.fed = TRUE]]
    /\ wpc' = [wpc EXCEPT ![w] = "store"]
    /\ UNCHANGED <<call, result, site, url, num_workers, max_pages, job_id, run_pc,
                   wurl, wtask, cancel_requested, jobs, rows, accepted,
                   archive_response, runs_scheduled>>

\* a same-host 200 text/html response whose link extraction raises after
\* fromstring (make_links_absolute or urljoin on a malformed reference)
FetchHtmlRaises(w) ==
    /\ wpc[w] = "fetch"
    /\ \E final \in FinalUrls(w), ct \in ContentTypes :
          /\ same_domain(final)
          /\ is_html(ct, 200)
          /\ TaskDone(w, Responded(tasklog[wtask[w]], 200, ct, final), "links")
    /\ UNCHANGED <<call, result, site, offered, skipped, url, num_workers, max_pages, url_queue, seen,
                   total_links_seen, job_id, run_pc, wresp, cancel_requested,
                   jobs, rows, accepted, archive_response, runs_scheduled, enq>>

\* params of SQL_ARCHIVE_CONTENT; link = resp.request.url or source_url is
\* the URL that was requested.  task is history: the tasklog index.
archive_row(w) ==
    [scraping_job |-> job_id,
     link |-> wurl[w],
     host |-> Lower(wurl[w].netloc),
     status_code |-> wresp[w].status,
     content_type |-> wresp[w].ctype,
     task |-> wtask[w]]

\* SQL_ARCHIVE_CONTENT inserts the row
Archive(w) ==
    /\ wpc[w] = "store"
    /\ rows' = rows \cup {archive_row(w)}
    /\ TaskDone(w, tasklog[wtask[w]], "")
    /\ UNCHANGED <<call, result, site, offered, skipped, url, num_workers, max_pages, url_queue, seen,
                   total_links_seen, job_id, run_pc, wresp, cancel_requested,
                   jobs, accepted, archive_response, runs_scheduled, enq>>

\* process_one without `except Exception`: task_done() runs in finally,
\* the exception ends the worker task
ArchiveRaisesEscapes(w) ==
    /\ wpc[w] = "store"
    /\ unfinished_tasks' = unfinished_tasks - 1
    /\ tasklog' = [tasklog EXCEPT ![wtask[w]].done = TRUE,
                                  ![wtask[w]].raised = "store"]
    /\ wpc' = [wpc EXCEPT ![w] = "exit"]
    /\ wurl' = [wurl EXCEPT ![w] = NoUrl]
    /\ wtask' = [wtask EXCEPT ![w] = 0]
    /\ UNCHANGED <<call, result, site, offered, skipped, url, num_workers, max_pages, url_queue, seen,
                   total_links_seen, job_id, run_pc, wresp, cancel_requested,
                   jobs, rows, accepted, archive_response, runs_scheduled, enq>>

\* process_one putting the URL back on the queue when the store write
\* raised, for another try
ArchiveRaisesRequeues(w) ==
    /\ wpc[w] = "store"
    /\ url_queue' = Append(url_queue, wurl[w])
    /\ enq' = [enq EXCEPT ![wurl[w]] = @ + 1]
    /\ tasklog' = [tasklog EXCEPT ![wtask[w]].done = TRUE,
                                  ![wtask[w]].raised = "store"]
    /\ wpc' = [wpc EXCEPT ![w] = "get"]
    /\ wurl' = [wurl EXCEPT ![w] = NoUrl]
    /\ wtask' = [wtask EXCEPT ![w] = 0]
    /\ UNCHANGED <<call, result, site, offered, skipped, url, num_workers, max_pages,
                   unfinished_tasks, seen, total_links_seen, job_id, run_pc, wresp,
                   cancel_requested, jobs, rows, accepted, archive_response,
                   runs_scheduled>>

\* the connection or the INSERT raises
ArchiveRaises(w) ==
    /\ wpc[w] = "store"
    /\ TaskDone(w, tasklog[wtask[w]], "store")
    /\ UNCHANGED <<call, result, site, offered, skipped, url, num_workers, max_pages, url_queue, seen,
                   total_links_seen, job_id, run_pc, wresp, cancel_requested,
                   jobs, rows, accepted, archive_response, runs_scheduled, enq>>

---------------------------------------------------------------------------
(* POST /archive *)

\* trigger_archive: INSERT INTO archive_jobs ... RETURNING id; the answer
\* repeats the request
trigger_archive ==
    /\ accepted < MaxRequests
    /\ \E request \in ArchiveRequests :
          archive_response' =
              [status |-> 200, job_id |-> jobs + 1, url |-> request.url,
               max_pages |-> request.max_pages,
               num_workers |-> request.num_workers]
    /\ jobs' = jobs + 1
    /\ accepted' = accepted + 1
    /\ UNCHANGED <<call, result, site, offered, skipped, url, num_workers, max_pages, url_queue, unfinished_tasks,
                   seen, total_links_seen, job_id, run_pc, wpc, wurl, wresp,
                   wtask, cancel_requested, rows, runs_scheduled, enq, tasklog>>

\* except Exception: HTTPException(status_code=500)
trigger_archive_raises ==
    /\ accepted < MaxRequests
    /\ archive_response # [NoResponse EXCEPT !.status = 500]
    /\ archive_response' = [NoResponse EXCEPT !.status = 500]
    /\ UNCHANGED <<call, result, site, offered, skipped, url, num_workers, max_pages, url_queue, unfinished_tasks,
                   seen, total_links_seen, job_id, run_pc, wpc, wurl, wresp,
                   wtask, cancel_requested, jobs, rows, accepted,
                   runs_scheduled, enq, tasklog>>

---------------------------------------------------------------------------
RunStep ==
    \/ StartRun
    \/ RunCreateJob
    \/ RunCreateJobRaises
    \/ RunCommitJobRaises
    \/ RunSeedAndSpawn
    \/ RunCancel
    \/ RunGather

WorkerStep(w) ==
    \/ Dequeue(w)
    \/ WorkerCancelled(w)
    \/ FetchRaises(w)
    \/ FetchOffHost(w)
    \/ FetchOther(w)
    \/ FetchHtml(w)
    \/ FetchHtmlRaises(w)
    \/ Archive(w)
    \/ ArchiveRaises(w)

Next ==
    \/ RunStep
    \/ \E w \in Workers : WorkerStep(w)
    \/ trigger_archive
    \/ trigger_archive_raises

Spec == Init /\ [][Next]_vars

\* The event loop runs every ready task, and every awaited call returns or raises.
FairSpec ==
    /\ Spec
    /\ WF_vars(RunStep)
    /\ \A w \in Workers : WF_vars(WorkerStep(w))

---------------------------------------------------------------------------
(* A session followed from the middle of its crawl: two workers are in
   crawl at the same time, one admission short of the cap. *)

\* max_pages of that session
RacePages == 4

\* The seed https://a.com/ was fetched by worker 1 as a 200 text/html page
\* linking to /p and /r, both were admitted, the page
\* was stored, and workers 1 and 2 have dequeued one of the two each.
RaceInit ==
    /\ site = RaceSite
    /\ offered = [u \in AllUrls |->
                    IF u \in {Url("https", "a.com", "/p"),
                              Url("https", "a.com", "/r")}
                    THEN 1 ELSE 0]
    /\ skipped = {}
    /\ url = Url("https", "a.com", "/")
    /\ num_workers = 2
    /\ max_pages = RacePages
    /\ url_queue = <<>>
    /\ unfinished_tasks = 2
    /\ seen = {Url("https", "a.com", "/p"), Url("https", "a.com", "/r")}
    /\ total_links_seen = 3
    /\ job_id = 1
    /\ run_pc = "join"
    /\ wpc = [w \in Workers |-> IF w <= 2 THEN "fetch" ELSE "none"]
    /\ wurl = [w \in Workers |->
                 IF w = 1 THEN Url("https", "a.com", "/p")
                 ELSE IF w = 2 THEN Url("https", "a.com", "/r")
                 ELSE NoUrl]
    /\ wresp = [w \in Workers |->
                  IF w = 1
                  THEN [status |-> 200, ctype |-> "text/html; charset=utf-8"]
                  ELSE [status |-> 0, ctype |-> ""]]
    /\ wtask = [w \in Workers |-> IF w <= 2 THEN w + 1 ELSE 0]
    /\ cancel_requested = [w \in Workers |-> FALSE]
    /\ jobs = 1
    /\ rows = {[scraping_job |-> 1, link |-> Url("https", "a.com", "/"),
                host |-> "a.com", status_code |-> 200,
                content_type |-> "text/html; charset=utf-8", task |-> 1]}
    /\ accepted = 0
    /\ archive_response = NoResponse
    /\ runs_scheduled = 1
    /\ enq = [u \in AllUrls |->
                IF u \in {Url("https", "a.com", "/"), Url("https", "a.com", "/p"),
                          Url("https", "a.com", "/r")}
                THEN 1 ELSE 0]
    /\ tasklog = <<[NewTask(Url("https", "a.com", "/")) EXCEPT
                      !.done = TRUE, !.same_host = TRUE,
                      !.status = 200,
                      !.ctype = "text/html; charset=utf-8", !.fed = TRUE],
                   NewTask(Url("https", "a.com", "/p")),
                   NewTask(Url("https", "a.com", "/r"))>>
    /\ call = NoCall
    /\ result = NoCall

RaceNext ==
    \/ RunCancel
    \/ RunGather
    \/ \E w \in Workers : WorkerStep(w)

RaceSpec == RaceInit /\ [][RaceNext]_vars

---------------------------------------------------------------------------
(* The crawl session: properties. *)

\* C1: in every reachable state total_links_seen is at most
\* max_pages + (num_workers - 1), and at most max_pages with one worker.
CapBound ==
    /\ total_links_seen <= max_pages + (num_workers - 1)
    /\ num_workers = 1 => total_links_seen <= max_pages

\* C1 witness: two workers, the cap is reached and put_todo has refused a
\* same-host URL that on_found_links recorded as seen.
CapReachedWitness ==
    /\ num_workers >= 2
    /\ max_pages >= 1
    /\ total_links_seen = max_pages
    /\ \E u \in seen : same_domain(u) /\ enq[u] = 0

\* C2: no URL, the seed included, is put on url_queue more than once.
NoUrlEnqueuedTwice == \A u \in AllUrls : enq[u] <= 1

RunEnded == run_pc \in {"done", "failed", "failed_commit"}

\* C3: under fair scheduling run() ends, whatever the seed and max_pages:
\* it returns once the job row exists, and ends with the error when the
\* job cannot be created.
RunTerminates ==
    /\ <>RunEnded
    /\ (run_pc = "seed") ~> (run_pc = "done")

\* C3 witness: run() has returned after a crawl that dequeued two URLs, one
\* of whose tasks raised.
RunReturnedWitness ==
    /\ run_pc = "done"
    /\ Len(tasklog) >= 2
    /\ \E i \in DOMAIN tasklog : tasklog[i].raised # ""

\* a step of worker w in which a step of crawl raised
RaiseStep(w) ==
    /\ wtask[w] # 0
    /\ tasklog'[wtask[w]].done
    /\ tasklog'[wtask[w]].raised # ""

SomeTaskRaised == \E i \in DOMAIN tasklog : tasklog[i].raised # ""

\* C4: when a step of crawl raises, the task is marked done once (the count
\* of unfinished tasks drops by one and the worker holds no task), the same
\* worker is back at the dequeue and free to take the next URL, and the
\* session still drains and returns.
ExceptionContained ==
    /\ [][\A w \in Workers :
            RaiseStep(w) =>
                /\ unfinished_tasks' = unfinished_tasks - 1
                /\ wpc'[w] = "get"
                /\ wtask'[w] = 0
                /\ ~cancel_requested'[w]]_vars
    /\ SomeTaskRaised ~> (run_pc = "done")

\* C4 witness: a step of crawl raised in one task, a later task of the same
\* session was still fetched and archived, and run() returned.
RaisedAndWentOnWitness ==
    /\ run_pc = "done"
    /\ \E i, k \in DOMAIN tasklog :
          /\ tasklog[i].raised # ""
          /\ i < k
          /\ tasklog[k].done /\ tasklog[k].raised = ""
          /\ \E r \in rows : r.task = k

RowsOf(i) == {r \in rows : r.task = i}

AcceptedRequestStartsSession ==
    [][accepted' = accepted + 1 =>
          /\ runs_scheduled' = runs_scheduled + 1
          /\ url' = archive_response'.url
          /\ max_pages' = archive_response'.max_pages
          /\ num_workers' = archive_response'.num_workers
          /\ jobs' = jobs + 1]_vars


---------------------------------------------------------------------------
(* Python str values on the replay side: sequences of one-character       *)
(* strings.  <<>> stands both for '' and for None: the code only tests    *)
(* them with `not`.                                                       *)

\* the characters with code points 32..126, in order (96 is written <grave>)
Printable ==
    << " ", "!", "\"", "#", "$", "%", "&", "'", "(", ")", "*", "+",
       ",", "-", ".", "/", "0", "1", "2", "3", "4", "5", "6", "7",
       "8", "9", ":", ";", "<", "=", ">", "?", "@", "A", "B", "C",
       "D", "E", "F", "G", "H", "I", "J", "K", "L", "M", "N", "O",
       "P", "Q", "R", "S", "T", "U", "V", "W", "X", "Y", "Z", "[",
       "\\", "]", "^", "_", "<grave>", "a", "b", "c", "d", "e", "f", "g",
       "h", "i", "j", "k", "l", "m", "n", "o", "p", "q", "r", "s",
       "t", "u", "v", "w", "x", "y", "z", "{", "|", "}", "~" >>

\* U+FFFD, what bytes.decode('utf-8', 'replace') gives for a stray byte
Replacement == "<U+FFFD>"

\* SUPERSCRIPT TWO: str.isdigit() accepts it, \d and int() do not
Superscript2 == "<U+00B2>"

\* ord(c) of a printable ASCII character
Ord(c) == 31 + (CHOOSE i \in 1..95 : Printable[i] = c)

\* the character of a byte that unquote decoded; a control character is
\* written <code>
Chr(b) ==
    IF b >= 32 /\ b <= 126 THEN Printable[b - 31]
    ELSE IF b >= 128 THEN Replacement
    ELSE ToString(b)

AsciiDigits == {"0", "1", "2", "3", "4", "5", "6", "7", "8", "9"}

LowerLetters == {Printable[i] : i \in 66..91}

UpperLetters == {Printable[i] : i \in 34..59}

\* c.lower()
LowerChar(c) == IF c \in UpperLetters THEN Chr(Ord(c) + 32) ELSE c

lower(s) == [i \in 1..Len(s) |-> LowerChar(s[i])]

HexUpper == <<"0", "1", "2", "3", "4", "5", "6", "7", "8", "9",
              "A", "B", "C", "D", "E", "F">>

IsHex(c) == c \in AsciiDigits \cup {"a", "b", "c", "d", "e", "f", "A", "B", "C", "D", "E", "F"}

HexVal(c) == (CHOOSE i \in 1..16 : HexUpper[i] = c \/ LowerChar(HexUpper[i]) = c) - 1

\* s.startswith(prefix)
StartsWith(s, prefix) ==
    Len(s) >= Len(prefix) /\ SubSeq(s, 1, Len(prefix)) = prefix

\* s.find(c) + 1: the first position of a character of cs, 0 when none
Find(s, cs) ==
    IF \E i \in 1..Len(s) : s[i] \in cs
    THEN CHOOSE i \in 1..Len(s) : s[i] \in cs /\ \A j \in 1..(i - 1) : s[j] \notin cs
    ELSE 0

\* s[i:], 1-based
From(s, i) == SubSeq(s, i, Len(s))

\* characters urllib.parse.quote never encodes
AlwaysSafe == LowerLetters \cup UpperLetters \cup AsciiDigits \cup {"_", ".", "-", "~"}

PercentEncode(c) == <<"%", HexUpper[(Ord(c) \div 16) + 1], HexUpper[(Ord(c) % 16) + 1]>>

\* quote with '%' taken as safe
RECURSIVE quote_percent_safe(_)
quote_percent_safe(s) ==
    IF s = <<>> THEN <<>>
    ELSE (IF Head(s) \in AlwaysSafe \cup {"%"} THEN <<Head(s)>> ELSE PercentEncode(Head(s)))
         \o quote_percent_safe(Tail(s))

\* urllib.parse.quote(s, safe='')
RECURSIVE quote(_)
quote(s) ==
    IF s = <<>> THEN <<>>
    ELSE (IF Head(s) \in AlwaysSafe THEN <<Head(s)>> ELSE PercentEncode(Head(s)))
         \o quote(Tail(s))

\* urllib.parse.unquote(s)
RECURSIVE unquote(_)
unquote(s) ==
    IF s = <<>> THEN <<>>
    ELSE IF Head(s) = "%" /\ Len(s) >= 3 /\ IsHex(s[2]) /\ IsHex(s[3])
    THEN <<Chr(16 * HexVal(s[2]) + HexVal(s[3]))>> \o unquote(From(s, 4))
    ELSE <<Head(s)>> \o unquote(Tail(s))

\* f'{n}' of an int n >= 0
RECURSIVE Decimal(_)
Decimal(n) ==
    IF n < 10 THEN <<HexUpper[n + 1]>>
    ELSE Decimal(n \div 10) \o <<HexUpper[(n % 10) + 1]>>

\* int(s) of a string of ASCII digits
RECURSIVE int(_)
int(s) ==
    IF s = <<>> THEN 0
    ELSE 10 * int(SubSeq(s, 1, Len(s) - 1)) + HexVal(s[Len(s)])

\* s.isdigit()
isdigit(s) == s # <<>> /\ \A i \in 1..Len(s) : s[i] \in AsciiDigits \cup {Superscript2}

\* s.split(sep)
RECURSIVE split(_, _)
split(s, sep) ==
    LET i == Find(s, {sep}) IN
    IF i = 0 THEN <<s>>
    ELSE <<SubSeq(s, 1, i - 1)>> \o split(From(s, i + 1), sep)

\* sep.join(parts)
RECURSIVE join(_, _)
join(parts, sep) ==
    IF parts = <<>> THEN <<>>
    ELSE IF Len(parts) = 1 THEN parts[1]
    ELSE parts[1] \o <<sep>> \o join(Tail(parts), sep)


---------------------------------------------------------------------------
(* urllib.parse, as far as the replay and the link extractor use it. *)

SchemeChars == LowerLetters \cup UpperLetters \cup AsciiDigits \cup {"+", "-", "."}

\* urlsplit(s): the scheme is what precedes the first ':' when it is made
\* of scheme characters and starts with a letter; the netloc follows '//'
\* up to the first '/', '?' or '#'
urlsplit(s) ==
    LET i == Find(s, {":"})
        hasScheme ==
            /\ i > 1
            /\ s[1] \in LowerLetters \cup UpperLetters
            /\ \A k \in 1..(i - 1) : s[k] \in SchemeChars
        r1 == IF hasScheme THEN From(s, i + 1) ELSE s
        hasNet == StartsWith(r1, <<"/", "/">>)
        r1n == From(r1, 3)
        d == Find(r1n, {"/", "?", "#"})
        r2 == IF hasNet THEN (IF d = 0 THEN <<>> ELSE From(r1n, d)) ELSE r1
        h == Find(r2, {"#"})
        r3 == IF h = 0 THEN r2 ELSE SubSeq(r2, 1, h - 1)
        q == Find(r3, {"?"})
    IN  [scheme |-> IF hasScheme THEN lower(SubSeq(s, 1, i - 1)) ELSE <<>>,
         netloc |-> IF hasNet
                    THEN (IF d = 0 THEN r1n ELSE SubSeq(r1n, 1, d - 1))
                    ELSE <<>>,
         path |-> IF q = 0 THEN r3 ELSE SubSeq(r3, 1, q - 1),
         query |-> IF q = 0 THEN <<>> ELSE From(r3, q + 1),
         fragment |-> IF h = 0 THEN <<>> ELSE From(r2, h + 1)]

\* the last position of '@' in s, 0 when none
RECURSIVE LastAt(_)
LastAt(s) ==
    IF s = <<>> THEN 0
    ELSE IF s[Len(s)] = "@" THEN Len(s)
    ELSE LastAt(SubSeq(s, 1, Len(s) - 1))

\* SplitResult.hostname: the netloc without userinfo and port, lowercased;
\* <<>> for None
hostname(parsed) ==
    LET hostinfo == From(parsed.netloc, LastAt(parsed.netloc) + 1)
        c == Find(hostinfo, {":"})
    IN  lower(IF c = 0 THEN hostinfo ELSE SubSeq(hostinfo, 1, c - 1))

\* schemes urljoin resolves relative references for (uses_relative /
\* uses_netloc), among those that occur
UsesRelative == {<<"h", "t", "t", "p">>, <<"h", "t", "t", "p", "s">>, <<"f", "t", "p">>, <<>>}

\* urlunsplit(parsed)
urlunsplit(parsed) ==
    LET p1 == IF \/ parsed.netloc # <<>>
                 \/ /\ parsed.scheme \in UsesRelative \ {<<>>}
                    /\ ~StartsWith(parsed.path, <<"/", "/">>)
              THEN <<"/", "/">> \o parsed.netloc
                   \o (IF parsed.path # <<>> /\ parsed.path[1] # "/"
                       THEN <<"/">> ELSE <<>>)
                   \o parsed.path
              ELSE parsed.path
        p2 == IF parsed.scheme # <<>> THEN parsed.scheme \o <<":">> \o p1 ELSE p1
        p3 == IF parsed.query # <<>> THEN p2 \o <<"?">> \o parsed.query ELSE p2
    IN  IF parsed.fragment # <<>> THEN p3 \o <<"#">> \o parsed.fragment ELSE p3

\* the loop of urljoin over the path segments: '.' is dropped, '..' pops
RECURSIVE ResolveSegments(_, _)
ResolveSegments(segments, resolved) ==
    IF segments = <<>> THEN resolved
    ELSE LET seg == Head(segments) IN
         ResolveSegments(Tail(segments),
             IF seg = <<".", ".">>
             THEN (IF resolved = <<>> THEN resolved
                   ELSE SubSeq(resolved, 1, Len(resolved) - 1))
             ELSE IF seg = <<".">> THEN resolved
             ELSE Append(resolved, seg))

\* segments[1:-1] = filter(None, segments[1:-1])
DropEmptyInner(segments) ==
    IF Len(segments) <= 2 THEN segments
    ELSE <<segments[1]>>
         \o SelectSeq(SubSeq(segments, 2, Len(segments) - 1), LAMBDA x : x # <<>>)
         \o <<segments[Len(segments)]>>

\* urljoin on the split base b and the split reference u0
urljoin_split(ref, b, u0) ==
    LET u == [u0 EXCEPT !.scheme = IF u0.scheme = <<>> THEN b.scheme ELSE u0.scheme]
    IN  IF u.scheme # b.scheme \/ u.scheme \notin UsesRelative THEN ref
        ELSE IF u.netloc # <<>> THEN urlunsplit(u)
        ELSE IF u.path = <<>>
        THEN urlunsplit([u EXCEPT !.netloc = b.netloc, !.path = b.path,
                                  !.query = IF u.query = <<>> THEN b.query ELSE u.query])
        ELSE LET bp0 == split(b.path, "/")
                 base_parts == IF bp0[Len(bp0)] # <<>>
                               THEN SubSeq(bp0, 1, Len(bp0) - 1) ELSE bp0
                 segments == IF u.path[1] = "/" THEN split(u.path, "/")
                             ELSE DropEmptyInner(base_parts \o split(u.path, "/"))
                 last == segments[Len(segments)]
                 resolved == ResolveSegments(segments, <<>>)
                             \o (IF last = <<".">> \/ last = <<".", ".">>
                                 THEN << <<>> >> ELSE <<>>)
                 joined == join(resolved, "/")
             IN  urlunsplit([u EXCEPT !.netloc = b.netloc,
                                      !.path = IF joined = <<>> THEN <<"/">> ELSE joined])

\* urljoin(base, ref) for a non-empty base and ref
urljoin(base, ref) == urljoin_split(ref, urlsplit(base), urlsplit(ref))

\* urldefrag(a)[0]
urldefrag(a) ==
    IF Find(a, {"#"}) = 0 THEN a
    ELSE urlunsplit([urlsplit(a) EXCEPT !.fragment = <<>>])

\* BasicArchiver.abs_url(base, u)
abs_url(base, u) == IF u = <<>> THEN <<>> ELSE urldefrag(urljoin(base, u))

\* BasicArchiver.same_domain(u) of a session whose seed is `seed`, on the
\* URL strings themselves
same_domain_str(seed, u) ==
    LET p == urlsplit(u) IN
    /\ p.scheme \in {<<"h", "t", "t", "p">>, <<"h", "t", "t", "p", "s">>}
    /\ lower(p.netloc) = lower(urlsplit(seed).netloc)


---------------------------------------------------------------------------
(* backend/app/main.py: the path codec, the rewriter, GET /web/...        *)

\* the prefixes _abs_url refuses
UnresolvablePrefixes ==
    {<<"#">>, <<"d", "a", "t", "a", ":">>, <<"m", "a", "i", "l", "t", "o", ":">>, <<"j", "a", "v", "a", "s", "c", "r", "i", "p", "t", ":">>}

HttpPrefixes == {<<"h", "t", "t", "p", ":", "/", "/">>, <<"h", "t", "t", "p", "s", ":", "/", "/">>}

\* the end of _abs_url: None unless the host of the split URL is base_host
same_host_url(base_host, parsed) ==
    IF hostname(parsed) # base_host THEN <<>> ELSE urlunsplit(parsed)

\* _abs_url(base_host, val); <<>> for None
_abs_url(base_host, val) ==
    IF val = <<>> \/ \E pre \in UnresolvablePrefixes : StartsWith(val, pre)
    THEN <<>>
    ELSE same_host_url(base_host,
             urlsplit(IF StartsWith(val, <<"/", "/">>)
                      THEN <<"h", "t", "t", "p", "s", ":">> \o val
                      ELSE IF \E pre \in HttpPrefixes : StartsWith(val, pre)
                      THEN val
                      ELSE IF StartsWith(val, <<"/">>)
                      THEN <<"h", "t", "t", "p", "s", ":", "/", "/">> \o base_host \o val
                      ELSE <<"h", "t", "t", "p", "s", ":", "/", "/">> \o base_host \o <<"/">> \o val))

\* the modifier _wb_path writes for a kind
Modifier(kind) ==
    CASE kind = "image" -> <<"i", "m", "_">>
      [] kind = "css" -> <<"c", "s", "_">>
      [] kind = "js" -> <<"j", "s", "_">>
      [] OTHER -> <<>>

\* _wb_path(job, full_url, kind)
_wb_path(job, full_url, kind) ==
    <<"/", "w", "e", "b", "/">> \o Decimal(job) \o Modifier(kind) \o <<"/">> \o quote(full_url)

\* An element of a parsed document: its tag name and its attributes, a
\* function from attribute names to values (rel: the list of its tokens).
Range(f) == {f[x] : x \in DOMAIN f}

\* kind = '' / 'css' / 'image' for an <a> or <link>
href_kind(tag) ==
    LET rels == IF "rel" \in DOMAIN tag.attrs THEN Range(tag.attrs.rel) ELSE {} IN
    IF tag.name # "link" THEN ""
    ELSE IF "stylesheet" \in rels THEN "css"
    ELSE IF "icon" \in rels \/ "apple-touch-icon" \in rels THEN "image"
    ELSE ""

\* tag['href'] = _wb_path(job_id, absu, kind), skipped when absu is None
set_href(tag, job, absu) ==
    IF absu = <<>> THEN tag
    ELSE [tag EXCEPT !.attrs.href = _wb_path(job, absu, href_kind(tag))]

\* the first loop of rewrite_links_in_html, on one element
rewrite_href(tag, original_host, job) ==
    IF tag.name \in {"a", "link"} /\ "href" \in DOMAIN tag.attrs
    THEN set_href(tag, job, _abs_url(original_host, tag.attrs.href))
    ELSE tag

\* tag['src'] = _wb_path(job_id, absu, kind), skipped when absu is None
set_src(tag, job, absu) ==
    IF absu = <<>> THEN tag
    ELSE [tag EXCEPT !.attrs.src =
              _wb_path(job, absu, IF tag.name = "img" THEN "image" ELSE "js")]

\* the second loop with find_all(src=True) in place of ['img', 'script']
rewrite_src_any_tag(tag, original_host, job) ==
    IF "src" \in DOMAIN tag.attrs
    THEN set_src(tag, job, _abs_url(original_host, tag.attrs.src))
    ELSE tag

\* the second loop of rewrite_links_in_html, on one element
rewrite_src(tag, original_host, job) ==
    IF tag.name \in {"img", "script"} /\ "src" \in DOMAIN tag.attrs
    THEN set_src(tag, job, _abs_url(original_host, tag.attrs.src))
    ELSE tag

\* rewrite_links_in_html(html_content, original_host, job), on the
\* parsed document
rewrite_links_in_html(html, original_host, job) ==
    [i \in DOMAIN html |->
        rewrite_src(rewrite_href(html[i], original_host, job),
                    original_host, job)]

\* @app.get('/web/{job_and_mod}/{original_url:path}'): the first segment
\* after /web/ and the rest of the path
route_web(path) ==
    LET tail == From(path, 6)
        i == Find(tail, {"/"})
    IN  [matched |-> StartsWith(path, <<"/", "w", "e", "b", "/">>) /\ i > 1,
         job_and_mod |-> SubSeq(tail, 1, i - 1),
         original_url |-> From(tail, i + 1)]

\* the length of the match of (\d+) at the start of s, 0 for no match
RECURSIVE DigitRun(_)
DigitRun(s) ==
    IF s # <<>> /\ Head(s) \in AsciiDigits THEN 1 + DigitRun(Tail(s)) ELSE 0

\* lines 264-269 of web_wayback: 400 unless the URL has a scheme and a host
wayback_target(job, absolute_url, parsed, host) ==
    IF host = <<>> \/ parsed.scheme = <<>>
    THEN [status |-> 400, job_id |-> 0, absolute_url |-> <<>>, host |-> <<>>]
    ELSE [status |-> 0, job_id |-> job, absolute_url |-> absolute_url,
          host |-> host]

\* lines 264-266 of web_wayback
wayback_url(job, absolute_url, parsed) ==
    wayback_target(job, absolute_url, parsed, hostname(parsed))

\* lines 255-262 of web_wayback on a segment whose match of (\d+) has n
\* characters: the status of the error (500: int() raised ValueError), or
\* the job id and the absolute URL
wayback_job(job_and_mod, n, absolute_url) ==
    IF isdigit(job_and_mod) /\ n < Len(job_and_mod)
    THEN [status |-> 500, job_id |-> 0, absolute_url |-> <<>>, host |-> <<>>]
    ELSE IF ~isdigit(job_and_mod) /\ n = 0
    THEN [status |-> 400, job_id |-> 0, absolute_url |-> <<>>, host |-> <<>>]
    ELSE wayback_url(int(SubSeq(job_and_mod, 1, n)), absolute_url,
                     urlsplit(absolute_url))

\* lines 255-269 of web_wayback
wayback_parse(job_and_mod, original_url) ==
    wayback_job(job_and_mod, DigitRun(job_and_mod), unquote(original_url))

\* ctype.startswith('text/html')
StartsTextHtml(ct) == ct \in {"text/html", "text/html; charset=utf-8"}

\* _fetch_from_db(job, absolute_url): the rows LIMIT 1 picks among
fetch_from_db(job, absolute_url) ==
    {r \in rows : r.scraping_job = job /\ r.link = absolute_url}

\* lines 273-294 of web_wayback, after the parse p; listing_raises: the
\* query that lists the links of the job raises
wayback_answers(p, listing_raises) ==
    LET found == fetch_from_db(p.job_id, p.absolute_url) IN
    IF p.status # 0 THEN {[status |-> p.status, body |-> <<>>]}
    ELSE IF found = {}
    THEN {[status |-> IF listing_raises THEN 500 ELSE 404, body |-> <<>>]}
    ELSE {[status |-> 200,
           body |-> IF StartsTextHtml(r.content_type)
                    THEN rewrite_links_in_html(r.content, p.host, p.job_id)
                    ELSE r.content] : r \in found}

\* the answers of web_wayback
web_wayback(job_and_mod, original_url, listing_raises) ==
    wayback_answers(wayback_parse(job_and_mod, original_url), listing_raises)

\* the length of the match of [^/%\?]+ at the start of s, 0 for no match
RECURSIVE HostRun(_)
HostRun(s) ==
    IF s # <<>> /\ Head(s) \notin {"/", "%", "?"} THEN 1 + HostRun(Tail(s)) ELSE 0

\* r'/web/(\d+)[^/]*/' matches at position i of referer
JobMatchAt(referer, i) ==
    /\ StartsWith(From(referer, i), <<"/", "w", "e", "b", "/">>)
    /\ DigitRun(From(referer, i + 5)) > 0
    /\ Find(From(referer, i + 5), {"/"}) > 0

\* re.search(r'/web/(\d+)[^/]*/', referer): the position of the leftmost
\* match, 0 for None
job_match(referer) ==
    IF \E i \in 1..Len(referer) : JobMatchAt(referer, i)
    THEN CHOOSE i \in 1..Len(referer) :
             JobMatchAt(referer, i) /\ \A j \in 1..(i - 1) : ~JobMatchAt(referer, j)
    ELSE 0

\* int(job_match.group(1)) of a match at position i
job_match_group(referer, i) ==
    int(SubSeq(referer, i + 5, i + 4 + DigitRun(From(referer, i + 5))))

\* the position after https?%3A%2F%2F when it stands at position i and a
\* host character follows, 0 otherwise
HostMatchAt(referer, i) ==
    IF /\ StartsWith(From(referer, i), <<"h", "t", "t", "p", "s", "%", "3", "A", "%", "2", "F", "%", "2", "F">>)
       /\ HostRun(From(referer, i + 14)) > 0
    THEN i + 14
    ELSE IF /\ StartsWith(From(referer, i), <<"h", "t", "t", "p", "%", "3", "A", "%", "2", "F", "%", "2", "F">>)
            /\ HostRun(From(referer, i + 13)) > 0
    THEN i + 13
    ELSE 0

\* re.search(r'https?%3A%2F%2F([^/%\?]+)', referer): the position of the
\* leftmost match, 0 for None
host_match(referer) ==
    IF \E i \in 1..Len(referer) : HostMatchAt(referer, i) > 0
    THEN CHOOSE i \in 1..Len(referer) :
             HostMatchAt(referer, i) > 0 /\ \A j \in 1..(i - 1) : HostMatchAt(referer, j) = 0
    ELSE 0

\* unquote(host_match.group(1)) of a match whose group starts at position k
host_match_group(referer, k) ==
    unquote(SubSeq(referer, k, k + HostRun(From(referer, k)) - 1))

\* the end of the three fallback handlers: the lookup and the answer
fallback_lookup(job, absolute_url) ==
    IF fetch_from_db(job, absolute_url) = {}
    THEN {[status |-> 404, body |-> <<>>]}
    ELSE {[status |-> 200, body |-> r.content] : r \in fetch_from_db(job, absolute_url)}

\* the handlers after the Referer was searched: jm and hm are the
\* positions of the two matches, target the path after https://{host}
fallback_resolve(referer, jm, hm, target) ==
    IF jm = 0 \/ hm = 0 THEN {[status |-> 404, body |-> <<>>]}
    ELSE fallback_lookup(job_match_group(referer, jm),
             <<"h", "t", "t", "p", "s", ":", "/", "/">> \o host_match_group(referer, HostMatchAt(referer, hm))
                 \o target)

\* static_fallback(path, request)
static_fallback(path, referer) ==
    fallback_resolve(referer, job_match(referer), host_match(referer),
                     <<"/", "s", "t", "a", "t", "i", "c", "/">> \o path)

\* favicon_fallback(request)
favicon_fallback(referer) ==
    fallback_resolve(referer, job_match(referer), host_match(referer),
                     <<"/", "f", "a", "v", "i", "c", "o", "n", ".", "i", "c", "o">>)

\* the prefixes general_fallback refuses as API endpoints
ApiPrefixes ==
    {<<"a", "r", "c", "h", "i", "v", "e", "d", "-", "s", "i", "t", "e", "s">>, <<"a", "r", "c", "h", "i", "v", "e">>, <<"w", "e", "b", "/">>}

\* general_fallback(path, request)
general_fallback(path, referer) ==
    IF \E pre \in ApiPrefixes : StartsWith(path, pre)
    THEN {[status |-> 404, body |-> <<>>]}
    ELSE fallback_resolve(referer, job_match(referer), host_match(referer),
                          <<"/">> \o path)

\* the route a GET of request_path falls to when no API route and no
\* /web/{job_and_mod}/{original_url} matches it
fallback_route(request_path, referer) ==
    IF StartsWith(request_path, <<"/", "s", "t", "a", "t", "i", "c", "/">>)
    THEN static_fallback(From(request_path, 9), referer)
    ELSE IF request_path = <<"/", "f", "a", "v", "i", "c", "o", "n", ".", "i", "c", "o">>
    THEN favicon_fallback(referer)
    ELSE general_fallback(From(request_path, 2), referer)

---------------------------------------------------------------------------
(* Replay: calls into backend/app/main.py over a populated store.         *)

MaxTail == 3    \* characters after the host in an encoded URL
MaxJobId == 11  \* job ids 0..MaxJobId
MaxSeg == 3     \* characters of the {job_and_mod} segment
MaxTags == 3    \* elements of a document

SeqsUpTo(A, n) == UNION {[1..k -> A] : k \in 0..n}

\* the document of the rewriter fixture: host x.com, job 7
Fixture ==
    <<[name |-> "a", attrs |-> [href |-> <<"m", "a", "i", "l", "t", "o", ":", "x", "@", "y", ".", "c", "o", "m">>]],
      [name |-> "a", attrs |-> [href |-> <<"/", "a", "b", "o", "u", "t">>]],
      [name |-> "img", attrs |-> [src |-> <<"d", "a", "t", "a", ":", "i", "m", "a", "g", "e", "/", "p", "n", "g", ";", "b", "a", "s", "e", "6", "4", ",", "A", "A", "A">>]]>>

Tags ==
    {Fixture[i] : i \in DOMAIN Fixture} \cup
    {[name |-> "a", attrs |-> [href |-> <<>>]],
     [name |-> "a", attrs |-> [href |-> <<"#", "t", "o", "p">>]],
     [name |-> "a", attrs |-> [href |-> <<"j", "a", "v", "a", "s", "c", "r", "i", "p", "t", ":", "v", "o", "i", "d", "(", "0", ")">>]],
     [name |-> "a", attrs |-> [href |-> <<"h", "t", "t", "p", "s", ":", "/", "/", "o", "t", "h", "e", "r", ".", "c", "o", "m", "/">>]],
     [name |-> "link", attrs |-> [rel |-> <<"stylesheet">>, href |-> <<"/", "s", ".", "c", "s", "s">>]],
     [name |-> "link", attrs |-> [rel |-> <<"shortcut", "icon">>, href |-> <<"/", "/", "x", ".", "c", "o", "m", "/", "i", ".", "i", "c", "o">>]],
     [name |-> "img", attrs |-> [src |-> <<"a", ".", "p", "n", "g">>, alt |-> <<"/", "a", "b", "o", "u", "t">>, href |-> <<"/", "a", "b", "o", "u", "t">>]],
     [name |-> "script", attrs |-> [src |-> <<"h", "t", "t", "p", "s", ":", "/", "/", "x", ".", "c", "o", "m", "/", "s", ".", "j", "s">>]],
     [name |-> "iframe", attrs |-> [src |-> <<"/", "a", "b", "o", "u", "t">>]]}

Documents == SeqsUpTo(Tags, MaxTags)

Kinds == {"", "image", "css", "js"}

ExampleUrl == <<"h", "t", "t", "p", "s", ":", "/", "/", "x", ".", "c", "o", "m", "/", "a", ".", "p", "n", "g">>

EncodedUrls ==
    {ExampleUrl} \cup
    {sch \o <<":", "/", "/", "x", ".", "c", "o", "m">> \o t :
        sch \in {<<"h", "t", "t", "p">>, <<"h", "t", "t", "p", "s">>},
        t \in SeqsUpTo({"/", "a", "%", "2"}, MaxTail)}

Segments ==
    {<<"5", "i", "m", "_">>, <<"5", "c", "s", "_">>, <<"5", "j", "s", "_">>} \cup
    (SeqsUpTo({"5", "0", "X", Superscript2}, MaxSeg) \ {<<>>})

Rests ==
    {<<"h", "t", "t", "p", "s", "%", "3", "A", "%", "2", "F", "%", "2", "F", "x", ".", "c", "o", "m", "%", "2", "F", "a", ".", "p", "n", "g">>,
     <<"h", "t", "t", "p", "s", ":", "/", "/", "x", ".", "c", "o", "m", "/", "a", ".", "p", "n", "g">>,
     <<"h", "t", "t", "p", "s", "%", "3", "A", "%", "2", "F", "%", "2", "F", "x", ".", "c", "o", "m", "%", "2", "F">>,
     <<"h", "t", "t", "p", "s", "%", "3", "A", "%", "2", "F", "%", "2", "F", "x", ".", "c", "o", "m", "%", "2", "F", "m", "i", "s", "s", "i", "n", "g">>,
     <<"x", ".", "c", "o", "m", "%", "2", "F", "a">>,
     <<>>,
     <<"%", "2", "F", "a", "b", "o", "u", "t">>,
     <<"h", "t", "t", "p", "s", "%", "3", "A">>}

PageUrls ==
    {<<"h", "t", "t", "p", "s", ":", "/", "/", "x", ".", "c", "o", "m", "/">>, <<"h", "t", "t", "p", "s", ":", "/", "/", "x", ".", "c", "o", "m", "/", "d", "i", "r", "/", "p", "a", "g", "e">>, <<"h", "t", "t", "p", ":", "/", "/", "x", ".", "c", "o", "m", "/">>}

References ==
    {<<"i", "m", "g", ".", "p", "n", "g">>,
     <<"/", "a", "b", "o", "u", "t">>,
     <<"/", "a", "b", "o", "u", "t", "#", "s", "e", "c">>,
     <<"/", "/", "x", ".", "c", "o", "m", "/", "s", ".", "j", "s">>,
     <<"h", "t", "t", "p", "s", ":", "/", "/", "x", ".", "c", "o", "m", "/", "a", ".", "p", "n", "g">>,
     <<"h", "t", "t", "p", "s", ":", "/", "/", "o", "t", "h", "e", "r", ".", "c", "o", "m", "/", "f", ".", "j", "s">>,
     <<".", ".", "/", "u", "p", ".", "c", "s", "s">>,
     <<"m", "a", "i", "l", "t", "o", ":", "x", "@", "y", ".", "c", "o", "m">>}

\* archived_resource after a session of job 5 on https://x.com/
StoredRows ==
    {[scraping_job |-> 5, link |-> <<"h", "t", "t", "p", "s", ":", "/", "/", "x", ".", "c", "o", "m", "/">>,
      content_type |-> "text/html; charset=utf-8", content |-> Fixture],
     [scraping_job |-> 5, link |-> ExampleUrl,
      content_type |-> "image/png", content |-> <<>>],
     [scraping_job |-> 5, link |-> <<"h", "t", "t", "p", "s", ":", "/", "/", "x", ".", "c", "o", "m", "/", "s", "t", "a", "t", "i", "c", "/", "a", "p", "p", ".", "j", "s">>,
      content_type |-> "application/javascript", content |-> <<"app.js">>],
     [scraping_job |-> 5, link |-> <<"h", "t", "t", "p", "s", ":", "/", "/", "x", ".", "c", "o", "m", "/", "f", "a", "v", "i", "c", "o", "n", ".", "i", "c", "o">>,
      content_type |-> "image/x-icon", content |-> <<"favicon.ico">>],
     [scraping_job |-> 5, link |-> <<"h", "t", "t", "p", "s", ":", "/", "/", "x", ".", "c", "o", "m", "/", "a", "r", "c", "h", "i", "v", "e", "/", "p", "i", "c", ".", "p", "n", "g">>,
      content_type |-> "image/png", content |-> <<"pic.png">>]}

ReplayStores == {{}, StoredRows}

ReplayInit ==
    /\ rows \in ReplayStores
    /\ site = LinkUniverse
    /\ offered = [u \in AllUrls |-> 0]
    /\ skipped = {}
    /\ url = Url("https", "a.com", "/")
    /\ num_workers = 1
    /\ max_pages = 0
    /\ url_queue = <<>>
    /\ unfinished_tasks = 0
    /\ seen = {}
    /\ total_links_seen = 0
    /\ job_id = 0
    /\ run_pc = "done"
    /\ wpc = [w \in Workers |-> "exit"]
    /\ wurl = [w \in Workers |-> NoUrl]
    /\ wresp = [w \in Workers |-> [status |-> 0, ctype |-> ""]]
    /\ wtask = [w \in Workers |-> 0]
    /\ cancel_requested = [w \in Workers |-> TRUE]
    /\ jobs = 5
    /\ accepted = 0
    /\ archive_response = NoResponse
    /\ runs_scheduled = 0
    /\ enq = [u \in AllUrls |-> 0]
    /\ tasklog = <<>>
    /\ call = NoCall
    /\ result = NoCall

\* the rewriter builds a replay path
BuildPath ==
    /\ call = NoCall
    /\ \E n \in 0..MaxJobId, u \in EncodedUrls, kind \in Kinds :
        /\ call' = [fn |-> "_wb_path", job_id |-> n, full_url |-> u,
                    kind |-> kind]
        /\ result' = [path |-> _wb_path(n, u, kind)]
        /\ UNCHANGED crawlVars

\* GET /web/{job_and_mod}/{original_url}
GetWeb ==
    /\ call = NoCall
    /\ \E seg \in Segments, rest \in Rests, listing_raises \in BOOLEAN :
        \E answer \in web_wayback(seg, rest, listing_raises) :
            /\ call' = [fn |-> "web_wayback", job_and_mod |-> seg,
                        original_url |-> rest,
                        listing_raises |-> listing_raises]
            /\ result' = answer
            /\ UNCHANGED crawlVars

\* a stored page is rewritten for replay
RewriteDocument ==
    /\ call = NoCall
    /\ \E html \in Documents, job \in {7} :
        /\ call' = [fn |-> "rewrite_links_in_html", html_content |-> html,
                    original_host |-> <<"x", ".", "c", "o", "m">>, job_id |-> job]
        /\ result' = [html |-> rewrite_links_in_html(html, <<"x", ".", "c", "o", "m">>, job)]
        /\ UNCHANGED crawlVars

\* if u and self.same_domain(u): the link a session seeded with `seed`
\* keeps of an extracted URL; <<>> when it drops it
stored_link(seed, u) ==
    IF u # <<>> /\ same_domain_str(seed, u) THEN u ELSE <<>>

\* A session seeded with `page` extracts the reference `ref` from it
\* (parse_links: abs_url, then same_domain) and stores the target under
\* that link; on replay of the page the rewriter rewrites the same
\* reference with the host of the request URL.
ResolveReference ==
    /\ call = NoCall
    /\ \E page \in PageUrls, ref \in References, job \in {5} :
        /\ call' = [fn |-> "resolve", page |-> page, ref |-> ref,
                    job_id |-> job]
        /\ result' = [link |-> stored_link(page, abs_url(page, ref)),
                      href |-> rewrite_href([name |-> "a", attrs |-> [href |-> ref]],
                                            hostname(urlsplit(page)), job).attrs.href]
        /\ UNCHANGED crawlVars

\* the Referer headers of fallback requests; <<>>: no Referer
Referers ==
    {<<>>,
     <<"h", "t", "t", "p", ":", "/", "/", "l", "o", "c", "a", "l", "h", "o", "s", "t", "/", "w", "e", "b", "/", "5", "/", "h", "t", "t", "p", "s", "%", "3", "A", "%", "2", "F", "%", "2", "F", "x", ".", "c", "o", "m", "%", "2", "F">>,
     <<"h", "t", "t", "p", ":", "/", "/", "l", "o", "c", "a", "l", "h", "o", "s", "t", "/", "w", "e", "b", "/", "5", "i", "m", "_", "/", "h", "t", "t", "p", "s", "%", "3", "A", "%", "2", "F", "%", "2", "F", "x", ".", "c", "o", "m", "%", "2", "F", "a", ".", "p", "n", "g">>,
     <<"h", "t", "t", "p", ":", "/", "/", "l", "o", "c", "a", "l", "h", "o", "s", "t", "/", "w", "e", "b", "/", "7", "/", "h", "t", "t", "p", "s", "%", "3", "A", "%", "2", "F", "%", "2", "F", "x", ".", "c", "o", "m", "%", "2", "F">>,
     <<"h", "t", "t", "p", ":", "/", "/", "l", "o", "c", "a", "l", "h", "o", "s", "t", "/", "h", "t", "t", "p", "s", "%", "3", "A", "%", "2", "F", "%", "2", "F", "x", ".", "c", "o", "m", "%", "2", "F">>,
     <<"h", "t", "t", "p", ":", "/", "/", "l", "o", "c", "a", "l", "h", "o", "s", "t", "/", "w", "e", "b", "/", "5", "/", "p", "a", "g", "e">>,
     <<"h", "t", "t", "p", ":", "/", "/", "l", "o", "c", "a", "l", "h", "o", "s", "t", "/", "w", "e", "b", "/", "x", "/", "h", "t", "t", "p", "s", "%", "3", "A", "%", "2", "F", "%", "2", "F", "x", ".", "c", "o", "m", "%", "2", "F">>}

RequestPaths ==
    {<<"/", "s", "t", "a", "t", "i", "c", "/", "a", "p", "p", ".", "j", "s">>,
     <<"/", "s", "t", "a", "t", "i", "c", "/", "n", "o", "n", "e", ".", "j", "s">>,
     <<"/", "f", "a", "v", "i", "c", "o", "n", ".", "i", "c", "o">>,
     <<"/", "a", ".", "p", "n", "g">>,
     <<"/", "m", "i", "s", "s", "i", "n", "g", ".", "c", "s", "s">>,
     <<"/", "a", "r", "c", "h", "i", "v", "e", "/", "p", "i", "c", ".", "p", "n", "g">>,
     <<"/", "w", "e", "b", "/", "5">>}

\* GET of a path that only the fallback routes match
GetFallback ==
    /\ call = NoCall
    /\ \E request_path \in RequestPaths, referer \in Referers :
        \E answer \in fallback_route(request_path, referer) :
            /\ call' = [fn |-> "fallback", request_path |-> request_path,
                        referer |-> referer]
            /\ result' = answer
            /\ UNCHANGED crawlVars

\* the call returns; the next one starts from the same store
Return ==
    /\ call # NoCall
    /\ call' = NoCall
    /\ result' = NoCall
    /\ UNCHANGED crawlVars

ReplayNext ==
    \/ BuildPath \/ GetWeb \/ RewriteDocument \/ ResolveReference
    \/ GetFallback
    \/ Return

ReplaySpec == ReplayInit /\ [][ReplayNext]_vars


---------------------------------------------------------------------------
(* Properties of the replay side. *)

\* what web_wayback makes of a replay path
decode(path) ==
    LET r == route_web(path) IN
    IF r.matched THEN wayback_parse(r.job_and_mod, r.original_url)
    ELSE [status |-> 404, job_id |-> 0, absolute_url |-> <<>>, host |-> <<>>]

\* C7: for every same-host reference on an archived page, the path the
\* replay rewriter writes for it decodes to the link under which the
\* crawler stored the target.
ReplayResolvesAsExtracted ==
    (call.fn = "resolve" /\ result.link # <<>>) =>
        LET p == decode(result.href) IN
        /\ p.status = 0
        /\ p.job_id = call.job_id
        /\ p.absolute_url = result.link

\* C8: decoding the path built by _wb_path(n, u, kind) as web_wayback does
\* yields job id n and URL u; (5, https://x.com/a.png, image) encodes to
\* /web/5im_/https%3A%2F%2Fx.com%2Fa.png.
PathCodecRoundTrip ==
    call.fn = "_wb_path" =>
        LET p == decode(result.path) IN
        /\ p.status = 0
        /\ p.job_id = call.job_id
        /\ p.absolute_url = call.full_url
        /\ (call.job_id = 5 /\ call.full_url = ExampleUrl /\ call.kind = "image")
               => result.path = <<"/", "w", "e", "b", "/", "5", "i", "m", "_", "/", "h", "t", "t", "p", "s", "%", "3", "A", "%", "2", "F", "%", "2", "F", "x", ".", "c", "o", "m", "%", "2", "F", "a", ".", "p", "n", "g">>

\* C8 witness: a path was built for a URL that itself holds an escape, under
\* a two-digit job id and a modifier.
EscapedUrlEncodedWitness ==
    /\ call.fn = "_wb_path"
    /\ call.job_id >= 10
    /\ call.kind = "css"
    /\ call.full_url = <<"h", "t", "t", "p", "s", ":", "/", "/", "x", ".", "c", "o", "m", "%", "2", "2">>
    /\ decode(result.path).absolute_url = call.full_url

\* C9: GET /web/{segment}/{rest} answers 400 exactly when the segment has
\* no leading digit run or the decoded rest has no scheme or no host,
\* otherwise 404 exactly when no stored resource matches (job id, decoded
\* URL), and 200 otherwise; the answer depends on nothing else.
WaybackStatusRule ==
    call.fn = "web_wayback" =>
        LET n == DigitRun(call.job_and_mod)
            u == unquote(call.original_url)
            parsed == urlsplit(u)
            invalid == n = 0 \/ parsed.scheme = <<>> \/ hostname(parsed) = <<>>
            stored == \E r \in rows :
                          /\ r.scraping_job = int(SubSeq(call.job_and_mod, 1, n))
                          /\ r.link = u
        IN  result.status = IF invalid THEN 400
                            ELSE IF ~stored THEN 404
                            ELSE 200

\* a value the specification lists as not resolving to a same-host URL
Unresolvable(host, v) ==
    \/ v = <<>>
    \/ Head(v) = "#"
    \/ StartsWith(v, <<"d", "a", "t", "a", ":">>)
    \/ StartsWith(v, <<"m", "a", "i", "l", "t", "o", ":">>)
    \/ StartsWith(v, <<"j", "a", "v", "a", "s", "c", "r", "i", "p", "t", ":">>)
    \/ /\ \E pre \in HttpPrefixes \cup {<<"/", "/">>} : StartsWith(v, pre)
       /\ hostname(urlsplit(IF Head(v) = "/" THEN <<"h", "t", "t", "p", "s", ":">> \o v ELSE v)) # host

\* the modifier the replay path of an attribute carries
ExpectedModifier(tag, k) ==
    IF k = "src" THEN (IF tag.name = "img" THEN <<"i", "m", "_">> ELSE <<"j", "s", "_">>)
    ELSE IF tag.name = "link" /\ "rel" \in DOMAIN tag.attrs
    THEN (IF \E i \in DOMAIN tag.attrs.rel : tag.attrs.rel[i] = "stylesheet"
          THEN <<"c", "s", "_">>
          ELSE IF \E i \in DOMAIN tag.attrs.rel :
                      tag.attrs.rel[i] \in {"icon", "apple-touch-icon"}
          THEN <<"i", "m", "_">>
          ELSE <<>>)
    ELSE <<>>

\* C10: rewrite_links_in_html leaves every href/src that does not resolve
\* to a same-host URL unchanged, replaces every a/link href and img/script
\* src that does resolve by a replay path of the current job on the same
\* host, and changes no other attribute, tag or position.
RewriteFrame ==
    call.fn = "rewrite_links_in_html" =>
        LET old == call.html_content
            new == result.html
            host == call.original_host
        IN  /\ Len(new) = Len(old)
            /\ \A i \in DOMAIN old :
                /\ new[i].name = old[i].name
                /\ DOMAIN new[i].attrs = DOMAIN old[i].attrs
                /\ \A k \in DOMAIN old[i].attrs :
                     LET v == old[i].attrs[k]
                         w == new[i].attrs[k]
                         rewritable ==
                             \/ k = "href" /\ old[i].name \in {"a", "link"}
                             \/ k = "src" /\ old[i].name \in {"img", "script"}
                     IN  IF rewritable /\ ~Unresolvable(host, v)
                         THEN /\ route_web(w).matched
                              /\ route_web(w).job_and_mod =
                                     Decimal(call.job_id) \o ExpectedModifier(old[i], k)
                              /\ decode(w).status = 0
                              /\ decode(w).job_id = call.job_id
                              /\ decode(w).host = host
                         ELSE w = v
            /\ (old = Fixture /\ call.job_id = 7) =>
                   new = [Fixture EXCEPT ![2].attrs.href =
                              <<"/", "w", "e", "b", "/", "7", "/", "h", "t", "t", "p", "s", "%", "3", "A", "%", "2", "F", "%", "2", "F", "x", ".", "c", "o", "m", "%", "2", "F", "a", "b", "o", "u", "t">>]

\* C10 witness: the fixture was rewritten under job 7 and only its second
\* element changed.
FixtureRewrittenWitness ==
    /\ call.fn = "rewrite_links_in_html"
    /\ call.html_content = Fixture
    /\ call.job_id = 7
    /\ result.html[1] = Fixture[1]
    /\ result.html[2] # Fixture[2]
    /\ result.html[3] = Fixture[3]


\* C11: a fallback request is answered 404 when its Referer is absent, has
\* no /web/{digits}.../ part, has no https?%3A%2F%2F{host} part, or when
\* https://{host}{requested path} is not stored under that job; otherwise
\* it is answered 200 with the stored bytes; never 400.
FallbackStatusRule ==
    call.fn = "fallback" =>
        LET jm == job_match(call.referer)
            hm == host_match(call.referer)
            target == <<"h", "t", "t", "p", "s", ":", "/", "/">>
                          \o host_match_group(call.referer, HostMatchAt(call.referer, hm))
                          \o call.request_path
            stored == {r \in rows : /\ r.scraping_job = job_match_group(call.referer, jm)
                                    /\ r.link = target}
        IN  /\ result.status # 400
            /\ IF jm = 0 \/ hm = 0 \/ stored = {}
               THEN result.status = 404
               ELSE result.status = 200 /\ \E r \in stored : result.body = r.content


\* C12: when GET /web/... finds no matching resource and the query that
\* lists the other links of the job raises, the answer is still 404.
ListingErrorSwallowed ==
    (/\ call.fn = "web_wayback"
     /\ call.listing_raises
     /\ decode(<<"/", "w", "e", "b", "/">> \o call.job_and_mod \o <<"/">>
               \o call.original_url).status = 0
     /\ ~\E r \in rows :
            /\ r.scraping_job = int(SubSeq(call.job_and_mod, 1, DigitRun(call.job_and_mod)))
            /\ r.link = unquote(call.original_url))
        => result.status = 404


---------------------------------------------------------------------------
(* The crawl session: further properties. *)

RunFailed == run_pc \in {"failed", "failed_commit"}

NothingCrawled ==
    /\ url_queue = <<>>
    /\ total_links_seen = 0
    /\ \A u \in AllUrls : enq[u] = 0
    /\ \A w \in Workers : wpc[w] = "none"
    /\ tasklog = <<>>
    /\ rows = {}

\* C13 as stated: when creating the job fails, run() ends with the error,
\* job_id stays unset, the seed is not enqueued, no worker is started, no
\* URL is fetched and no resource is written.
JobFailureLeavesJobIdUnset == RunFailed => (job_id = 0 /\ NothingCrawled)

\* C13 amended: when creating the job fails, run() ends with the error,
\* the seed is not enqueued, no worker is started, no URL is fetched and no
\* resource is written; job_id stays unset when the connection or the
\* INSERT raised, and holds the id of the rolled-back row, which no job of
\* the store has, when the commit raised.
JobFailureAbortsSession ==
    /\ [](RunFailed => NothingCrawled)
    /\ [](run_pc = "failed" => job_id = 0)
    /\ [](run_pc = "failed_commit" => job_id > 0)
    /\ [][run_pc' = "failed_commit" /\ run_pc # "failed_commit"
              => job_id' > jobs']_vars

\* C13 witness: run() ended with the error of the job insert for a seed
\* the frontier would admit, with max_pages at least 1.
JobInsertFailedWitness ==
    /\ run_pc = "failed"
    /\ max_pages >= 1
    /\ same_domain(url)

\* classification as html: by the content-type header when the response
\* has one, by the extension of the final URL's path otherwise
ClassifiedHtml(ct, html_ext) ==
    IF ct # "" THEN HasTextHtml(ct) ELSE html_ext

\* C14: a same-host response has its links extracted and fed to the
\* frontier iff its status is 200 and it is classified html, by the
\* content-type header when present and by the URL path extension
\* otherwise (tasks whose link extraction raised are left aside).
LinksFedIffClassifiedHtml ==
    \A i \in DOMAIN tasklog :
        (tasklog[i].same_host /\ tasklog[i].raised # "links") =>
            (tasklog[i].fed <=>
                (tasklog[i].status = 200
                 /\ ClassifiedHtml(tasklog[i].ctype, tasklog[i].html_ext)))

\* a worker of the pool is at url_queue.get() with no URL in hand
AtDequeue(w) == wpc[w] = "get" /\ wurl[w] = NoUrl /\ wtask[w] = 0

\* C15: run() cancels the workers only in a state where the queue is
\* empty, every dequeued URL has been marked done and every worker is at
\* the dequeue with nothing in hand: never while a worker is inside crawl.
StopOnlyWhenDrained ==
    [][(run_pc = "join" /\ run_pc' = "gather") =>
          /\ url_queue = <<>>
          /\ \A i \in DOMAIN tasklog : tasklog[i].done
          /\ \A w \in Workers : w <= num_workers => AtDequeue(w)]_vars

\* C15 witness: the stop was issued after two URLs had been crawled by a
\* pool of two workers.
StoppedAfterCrawlWitness ==
    /\ run_pc = "gather"
    /\ num_workers = 2
    /\ Len(tasklog) = 2
    /\ \E w \in Workers : cancel_requested[w]

\* run() has cancelled the workers
Stopped == run_pc \in {"gather", "done"}

\* C16: once run() has issued the stop no worker dequeues, fetches or
\* writes a resource again, a worker only leaves the dequeue to exit, and
\* run() has returned only when every worker of the pool has terminated.
NoWorkAfterStop ==
    /\ [][Stopped =>
            /\ url_queue' = url_queue
            /\ tasklog' = tasklog
            /\ rows' = rows
            /\ seen' = seen
            /\ \A w \in Workers : wpc'[w] # wpc[w] =>
                   (wpc[w] = "get" /\ wpc'[w] = "exit")]_vars
    /\ [](run_pc = "done" =>
            \A w \in Workers : w <= num_workers => wpc[w] = "exit")

\* C16 witness: run() has returned from a crawl of two workers that
\* fetched a URL, and both workers have exited.
PoolTerminatedWitness ==
    /\ run_pc = "done"
    /\ num_workers = 2
    /\ tasklog # <<>>
    /\ \A w \in Workers : wpc[w] = "exit"

\* the admission rule: an http(s) URL of the seed's authority, compared in
\* lower case with the port as written, while the cap is not reached
Admitted(u) ==
    /\ u.scheme \in {"http", "https"}
    /\ Lower(u.netloc) = Lower(url.netloc)
    /\ total_links_seen < max_pages

\* C17: put_todo(u) appends u to the queue and adds exactly 1 to
\* total_links_seen iff u is an http(s) URL of the seed's lower-cased
\* authority and total_links_seen < max_pages at the call, and otherwise
\* changes nothing; seeding changes the queue and the counter that way and
\* leaves seen alone; every URL on the queue or dequeued from it is an
\* http(s) URL of the seed's authority.
PutTodoAdmission ==
    /\ [](\A u \in AllUrls :
            IF Admitted(u)
            THEN /\ put_todo(u, Frontier).queue = Append(url_queue, u)
                 /\ put_todo(u, Frontier).total = total_links_seen + 1
            ELSE put_todo(u, Frontier) = Frontier)
    /\ [][(run_pc = "seed" /\ run_pc' = "join") =>
            /\ seen' = seen
            /\ url_queue' = IF Admitted(url) THEN Append(url_queue, url)
                            ELSE url_queue
            /\ total_links_seen' = IF Admitted(url) THEN total_links_seen + 1
                                   ELSE total_links_seen]_vars
    /\ [](\A i \in DOMAIN url_queue :
            /\ url_queue[i].scheme \in {"http", "https"}
            /\ Lower(url_queue[i].netloc) = Lower(url.netloc))
    /\ [](\A i \in DOMAIN tasklog :
            /\ tasklog[i].url.scheme \in {"http", "https"}
            /\ Lower(tasklog[i].url.netloc) = Lower(url.netloc))

\* C17 witness: a link whose authority differs from the seed's only in
\* case was admitted as the second URL of the crawl.
MixedCaseAdmittedWitness ==
    /\ total_links_seen = 2
    /\ \E i \in DOMAIN url_queue : url_queue[i].netloc = "A.com"

\* what tasklog shows of a fetch that was redirected off-host: the task
\* ended without a same-host response and without raising
OffHost(t) == t.done /\ ~t.same_host /\ t.raised = ""

\* C20: when the final URL of a fetch is off-host, crawl leaves seen, the
\* queue, total_links_seen and the store unchanged, the task is marked
\* done in that step, and no resource row is ever written for it.
OffHostFrame ==
    /\ [][\A w \in Workers :
            (wpc[w] = "fetch" /\ wpc'[w] = "get"
             /\ OffHost(tasklog'[wtask[w]])) =>
               /\ seen' = seen
               /\ url_queue' = url_queue
               /\ total_links_seen' = total_links_seen
               /\ rows' = rows
               /\ unfinished_tasks' = unfinished_tasks - 1]_vars
    /\ [](\A i \in DOMAIN tasklog : OffHost(tasklog[i]) => RowsOf(i) = {})

\* C20 witness: the crawl of the seed was redirected off-host; run() has
\* returned with nothing stored, nothing seen and only the seed counted.
RedirectedOffHostWitness ==
    /\ run_pc = "done"
    /\ Len(tasklog) = 1
    /\ OffHost(tasklog[1])
    /\ rows = {}
    /\ seen = {}
    /\ total_links_seen = 1

\* C21: when the store write of a fetched URL raises, the URL is not put
\* back on the queue, the queue, seen and total_links_seen keep what the
\* page's discovery put there, the task is marked done in that step, and
\* no resource row exists for that fetch.
StoreFailureFrame ==
    /\ [][\A w \in Workers :
            (wpc[w] = "store" /\ tasklog'[wtask[w]].raised = "store") =>
               /\ url_queue' = url_queue
               /\ enq' = enq
               /\ seen' = seen
               /\ total_links_seen' = total_links_seen
               /\ rows' = rows
               /\ tasklog'[wtask[w]].done
               /\ unfinished_tasks' = unfinished_tasks - 1
               /\ wpc'[w] = "get"]_vars
    /\ [](\A i \in DOMAIN tasklog :
            tasklog[i].raised = "store" =>
                (tasklog[i].done /\ RowsOf(i) = {}))

\* C21 witness: the seed page fed its links, one of them was admitted, and
\* then its store write raised: the link is still seen and queued, and no
\* row was written.
StoreFailedAfterDiscoveryWitness ==
    /\ Len(tasklog) = 1
    /\ tasklog[1].fed
    /\ tasklog[1].raised = "store"
    /\ Url("https", "a.com", "/p") \in seen
    /\ url_queue = <<Url("https", "a.com", "/p")>>
    /\ rows = {}

\* C22: a failure of link extraction on a fetched 200 HTML page degrades
\* instead of failing the task: no such task ends with the extraction
\* having raised, and the page has its resource row unless the store
\* write itself raised.
ExtractionFailureDegrades ==
    \A i \in DOMAIN tasklog :
        (tasklog[i].done /\ tasklog[i].same_host /\ tasklog[i].status = 200
         /\ HasTextHtml(tasklog[i].ctype)) =>
            /\ tasklog[i].raised # "links"
            /\ tasklog[i].raised = "" => Cardinality(RowsOf(i)) = 1

\* the workers between a completed dequeue and its task_done()
InHand == {w \in Workers : wpc[w] \in {"fetch", "store"}}

\* the dequeued URLs whose task_done() has not been called
Unfinished == {i \in DOMAIN tasklog : ~tasklog[i].done}

\* C23: the queue's count of unfinished tasks is the number of queued URLs
\* plus the number of workers holding a dequeued URL; task_done() is called
\* exactly once per dequeued URL, whether crawl succeeded, raised or
\* discarded an off-host response, and never by a worker cancelled in the
\* dequeue; the count is never negative and is 0 only when nothing is
\* queued or in hand.
TaskAccounting ==
    /\ [](unfinished_tasks = Len(url_queue) + Cardinality(InHand))
    /\ [](unfinished_tasks >= 0)
    /\ [](unfinished_tasks = 0 => (url_queue = <<>> /\ InHand = {}))
    /\ [](Cardinality(Unfinished) = Cardinality(InHand))
    /\ [](\A w \in InHand : wtask[w] \in Unfinished)
    /\ [][\A i \in DOMAIN tasklog :
            /\ tasklog[i].done => tasklog'[i].done
            /\ (~tasklog[i].done /\ tasklog'[i].done) =>
                   unfinished_tasks' = unfinished_tasks - 1]_vars
    /\ [][unfinished_tasks' < unfinished_tasks =>
            \E i \in DOMAIN tasklog : ~tasklog[i].done /\ tasklog'[i].done]_vars
    /\ [][\A w \in Workers :
            (wpc[w] = "get" /\ wpc'[w] = "exit") =>
                unfinished_tasks' = unfinished_tasks]_vars

\* C23 witness: one task ended in an off-host discard and one in an
\* exception, the workers were cancelled in the dequeue and run() returned
\* with the count at 0.
AllTasksAccountedWitness ==
    /\ run_pc = "done"
    /\ unfinished_tasks = 0
    /\ Len(tasklog) = 2
    /\ \E i, j \in DOMAIN tasklog :
          OffHost(tasklog[i]) /\ tasklog[j].raised # ""

\* C24: in one crawl job no URL is fetched twice and no URL has two
\* resource rows, so the number of fetches and the number of rows are at
\* most total_links_seen; every row carries the session's job id and the
\* seed's lower-cased authority as host.
EachUrlFetchedAndStoredOnce ==
    /\ \A i, j \in DOMAIN tasklog :
          i # j => tasklog[i].url # tasklog[j].url
    /\ \A r1, r2 \in rows : r1.link = r2.link => r1 = r2
    /\ Len(tasklog) <= total_links_seen
    /\ Cardinality(rows) <= total_links_seen
    /\ \A r \in rows : r.scraping_job = job_id /\ r.host = allowed_netloc

---------------------------------------------------------------------------
(* Two workers in crawl at the same time: properties. *)

\* the two URLs of the site's host that the session has not seen when two
\* of its workers are in crawl one admission short of the cap
UnseenAtRace == {Url("https", "a.com", "/"), Url("https", "a.com", "/s")}

\* both of the workers that were in crawl together passed links to
\* on_found_links, and between them they discovered both unseen URLs
BothDiscovered ==
    /\ Len(tasklog) >= 3
    /\ tasklog[2].fed
    /\ tasklog[3].fed
    /\ UnseenAtRace \subseteq seen

\* C18 as stated: when two workers discover new URLs while both are in
\* crawl and one admission is left, both pass the cap test and
\* total_links_seen ends above max_pages.
CapExceededByRace == BothDiscovered => total_links_seen > max_pages

\* C18 amended: total_links_seen never exceeds max_pages, whatever the
\* number of workers and the interleaving of their discoveries.
CapNeverExceeded == total_links_seen <= max_pages

\* C18 witness: both workers have fed their discoveries while in crawl
\* together, two new URLs competed for the one admission left and only
\* one of them was enqueued.
RaceLostWitness ==
    /\ BothDiscovered
    /\ wpc[1] = "store"
    /\ wpc[2] = "store"
    /\ total_links_seen = max_pages
    /\ enq[Url("https", "a.com", "/")] + enq[Url("https", "a.com", "/s")] = 2

\* C19: the test-and-add on seen is atomic per discovery batch: of the
\* on_found_links calls whose batches hold a URL, exactly one obtains it
\* in its new-subset and passes it to put_todo; every other call skips it.
SeenTestAndAddAtomic ==
    \A u \in AllUrls :
        /\ offered[u] = IF u \in seen THEN 1 ELSE 0
        /\ u \in skipped => offered[u] = 1

\* C19 witness: /s was unseen when the two workers were in crawl together,
\* both of their batches held it, one worker passed it to put_todo and the
\* other skipped it.
SharedLinkOfferedOnceWitness ==
    /\ Len(tasklog) = 3
    /\ tasklog[2].fed
    /\ tasklog[3].fed
    /\ Url("https", "a.com", "/s") \in skipped
    /\ offered[Url("https", "a.com", "/s")] = 1

=============================================================================
